---- MODULE Spec2Model ----
(***************************************************************************)
(* Model of src/WH.py: the per-pixel geodesic integrator of the fragment   *)
(* shader (get_fragment_shader, GLSL embedded in the Python source) and    *)
(* the GIF recording state machine of Wormhole3D.run / save_gif.           *)
(*                                                                         *)
(* GLSL floats are modelled in fixed point: a float f is the integer       *)
(* round(f * SCALE).  Products and quotients are rounded to the nearest    *)
(* unit, symmetric in sign as IEEE rounding is.  atan, log, sin, cos and   *)
(* sqrt are computed (not assumed) by fixed-point algorithms that are      *)
(* exact at the points the shader's branches depend on: atan(0) = 0,       *)
(* log(1) = 0, sin(0) = 0, cos(0) = 1.                                     *)
(***************************************************************************)
EXTENDS Integers, Sequences, FiniteSets

\* Fixed-point resolution: three decimal digits.
SCALE == 10 * 10 * 10

\* ------------------------------------------------------------------------
\* Program constants (scaled by SCALE where they are floats).
WORMHOLE_RHO == 2000
WORMHOLE_A == 2000
WORMHOLE_M == 300
PI == 3142
DT == 50
MAX_STEPS == 500
BOUNDARY == 50000
FLOW_SPEED == 30
\* 0.7, the literal of line 160
FLOW_RATIO_B == 700
\* 1e-5, the literal of line 154: below one unit of the fixed-point grid
PERP_EPS == 0
\* the fallback frame duration of save_gif, in ms
DEFAULT_DURATION == 33

\* ------------------------------------------------------------------------
\* Bounds of the model.
\* frames rendered in one run of the frame loop
MaxFrames == 4
\* events returned by one pygame.event.get()
MaxEvents == 2

\* uniforms rho, a, M_wh as uploaded by Wormhole3D.__init__
rho == WORMHOLE_RHO
a == WORMHOLE_A
M_wh == WORMHOLE_M

\* ------------------------------------------------------------------------
\* Fixed-point arithmetic.
Abs(x) == IF x < 0 THEN -x ELSE x
\* GLSL sign(): -1, 0 or 1
Sign(x) == IF x > 0 THEN 1 ELSE IF x < 0 THEN -1 ELSE 0
Max(x, y) == IF x >= y THEN x ELSE y
Min(x, y) == IF x <= y THEN x ELSE y

\* round(p * q / SCALE) for p, q >= 0, split so that no intermediate
\* exceeds TLC's 32-bit integers
MulU(p, q) ==
    LET hi == Max(p, q)
        lo == Min(p, q)
    IN (hi \div SCALE) * lo + ((hi % SCALE) * lo + SCALE \div 2) \div SCALE

\* float product
FMul(x, y) == Sign(x) * Sign(y) * MulU(Abs(x), Abs(y))

\* long division: one more decimal digit of rem / d appended to q for
\* each factor of ten left in s
RECURSIVE LongDiv(_, _, _, _)
LongDiv(q, rem, d, s) ==
    IF s <= 1
    THEN q + (IF 2 * rem >= d THEN 1 ELSE 0)
    ELSE LongDiv(q * 10 + (rem * 10) \div d, (rem * 10) % d, d, s \div 10)

\* round(p * SCALE / q) for p >= 0, q > 0
DivU(p, q) == LongDiv(p \div q, p % q, q, SCALE)

\* float quotient (y # 0)
FDiv(x, y) == Sign(x) * Sign(y) * DivU(Abs(x), Abs(y))

\* integer square root, by bisection
RECURSIVE SqrtBisect(_, _, _)
SqrtBisect(n, lo, hi) ==
    IF hi - lo <= 1 THEN lo
    ELSE LET mid == (lo + hi) \div 2
         IN IF mid * mid <= n THEN SqrtBisect(n, mid, hi)
                              ELSE SqrtBisect(n, lo, mid)
ISqrt(n) == SqrtBisect(n, 0, 46341)

\* GLSL length() of a 2- or 3-vector, scaled by its largest component so
\* the squares stay in range (as hypot does)
Length(v) ==
    LET m == Max(Abs(v[1]), Max(Abs(v[2]), IF Len(v) > 2 THEN Abs(v[3]) ELSE 0))
        u(k) == IF k > Len(v) THEN 0 ELSE DivU(Abs(v[k]), m)
    IN IF m = 0 THEN 0
       ELSE MulU(m, ISqrt(u(1) * u(1) + u(2) * u(2) + u(3) * u(3)))

\* GLSL atan(x) for x >= 0: a quadratic-corrected fit on [0,1]
\* (error < 0.002 rad), the complement pi/2 - atan(1/x) above 1
AtanUnit(x) ==
    MulU(PI \div 4, x) + MulU(MulU(x, SCALE - x), 245 + MulU(66, x))
FAtan(x) ==
    IF x <= SCALE THEN AtanUnit(x)
    ELSE PI \div 2 - AtanUnit(DivU(SCALE, x))

\* GLSL log(y) for y >= 1: halve down to [1,2), adding ln 2 = 0.693 for
\* each halving, then the atanh series
LnUnit(m) ==
    LET z == DivU(m - SCALE, m + SCALE)
        z2 == MulU(z, z)
        z3 == MulU(z2, z)
        z5 == MulU(z3, z2)
    IN 2 * (z + z3 \div 3 + z5 \div 5)
RECURSIVE FLog(_)
FLog(y) ==
    IF y >= 2 * SCALE THEN 693 + FLog(y \div 2) ELSE LnUnit(y)

\* GLSL sin(t) for t >= 0 (Bhaskara's rational fit on [0,pi], error < 0.002)
SinHalf(t) ==
    LET p == MulU(t, PI - t)
    IN DivU(16 * p, 5 * MulU(PI, PI) - 4 * p)
FSin(t) ==
    LET m == t % (2 * PI)
    IN IF m <= PI THEN SinHalf(m) ELSE -SinHalf(m - PI)
FCos(t) == FSin(t + PI \div 2)

\* ------------------------------------------------------------------------
\* WormholeMetric: LtoR and LtoDR of the fragment shader.
FlareX(l) == Max(0, FDiv(2 * (Abs(l) - a), FMul(PI, M_wh)))

LtoR(l) ==
    LET x == FlareX(l)
    IN rho + FMul(M_wh, FMul(x, FAtan(x))
                        - FMul(SCALE \div 2, FLog(SCALE + FMul(x, x))))

LtoDR(l) ==
    LET x == FlareX(l)
    IN FDiv(2 * FAtan(x) * Sign(l), PI)

\* ------------------------------------------------------------------------
\* Vectors are sequences <<x, y, z>>; a direction that went through
\* normalize() carries a flag for the undefined result of normalize(0).
ZeroVec == <<0, 0, 0>>
Dir(v) == [v |-> v, nan |-> FALSE]

\* normalize() of a non-zero vector
NormalizeVec(v) == LET n == Length(v) IN [k \in DOMAIN v |-> FDiv(v[k], n)]

\* The outcomes of normalize(vec3(0)): GLSL leaves 0/0 undefined; a build
\* yields NaN components or leaves the zero vector.
NormalizeZero == {[v |-> ZeroVec, nan |-> TRUE], [v |-> ZeroVec, nan |-> FALSE]}

\* mat3(c, 0, s, 0, 1, 0, -s, 0, c): three columns
rotationY(angle) ==
    LET s == FSin(angle)
        c == FCos(angle)
    IN << <<c, 0, s>>, <<0, SCALE, 0>>, <<-s, 0, c>> >>

\* mat3 * vec3
MatVec(m, d) ==
    [v |-> [k \in 1..3 |-> FMul(m[1][k], d.v[1]) + FMul(m[2][k], d.v[2])
                           + FMul(m[3][k], d.v[3])],
     nan |-> d.nan]

\* texture(sampler, direction)
Texture(env, d) == [env |-> env, dir |-> d]
NoColor == [env |-> "none", dir |-> Dir(ZeroVec)]

\* ------------------------------------------------------------------------
\* Inputs of one pixel: the uniforms and the ray direction of line 134.
CameraPositions ==
    { <<0, 0, 15000>>, <<0, 0, 25000>>, <<0, 0, 5000>>, <<0, 0, -5000>>,
      <<0, 0, 1000>>, <<0, 0, 0>>, <<3000, 4000, 0>>, <<0, 0, 45000>>,
      <<0, 0, 50020>> }
RayDirs ==
    { <<0, 0, 1000>>, <<0, 0, -1000>>, <<600, 0, 800>>, <<600, 0, -800>>,
      <<0, -800, -600>>, <<1000, 0, 0>>, <<280, 0, -960>>, <<0, 600, 800>> }
Times == {0, 7000}

VARIABLES
    u_camera_pos, ray_dir, u_time,      \* inputs of the pixel
    l, r, dl, H, phi, i,                \* ray state and loop counter
    dr, final_dir, fragColor,           \* reconstruction and output
    pc,                                 \* position in main()
    running, is_recording, frames_buffer, \* Wormhole3D state
    saved, console, frame_no, nevents, rpc \* files, stdout, loop position

svars == <<u_camera_pos, ray_dir, u_time, l, r, dl, H, phi, i, dr,
           final_dir, fragColor, pc>>
rvars == <<running, is_recording, frames_buffer, saved, console, frame_no,
           nevents, rpc>>
vars == <<svars, rvars>>

\* ------------------------------------------------------------------------
\* The fragment shader's main(), one pixel.

\* lines 135-139: the ray seed
SeedL(pos) == pos[3]
SeedR(pos) == Length(pos)
SeedDl(rd) == rd[3]
SeedH(r0, rd) == FMul(r0, Length(<<rd[1], rd[2]>>))

Seed ==
    /\ pc = "seed"
    /\ l' = SeedL(u_camera_pos)
    /\ r' = SeedR(u_camera_pos)
    /\ dl' = SeedDl(ray_dir)
    /\ H' = SeedH(SeedR(u_camera_pos), ray_dir)
    /\ phi' = 0
    /\ i' = 0
    /\ pc' = "loop"
    /\ UNCHANGED <<u_camera_pos, ray_dir, u_time, dr, final_dir, fragColor>>

\* lines 143-146: the three updates and the break test
\* StepL with the sign of the increment slipped
StepL_Backward(l0, dl0) == l0 - FMul(dl0, DT)
StepL(l0, dl0) == l0 + FMul(dl0, DT)
StepPhi(phi0, H0, r0) == phi0 + FMul(FDiv(H0, FMul(r0, r0)), DT)
StepDl(dl0, H0, dr0, r0) ==
    dl0 + FMul(FDiv(FMul(FMul(H0, H0), dr0), FMul(FMul(r0, r0), r0)), DT)
\* Escaped with the break test lost
Escaped_Never(l0) == FALSE
Escaped(l0) == Abs(l0) > BOUNDARY
\* LoopCond off by one
LoopCond_OffByOne(k) == k <= MAX_STEPS
LoopCond(k) == k < MAX_STEPS

\* LoopStep with H recomputed from the current radius in every iteration
LoopStep_ReassignsH ==
    /\ pc = "loop"
    /\ LoopCond(i)
    /\ LET r1 == LtoR(l)
           dr1 == LtoDR(l)
       IN /\ r' = r1
          /\ H' = SeedH(r1, ray_dir)
          /\ l' = StepL(l, dl)
          /\ phi' = StepPhi(phi, H', r1)
          /\ dl' = StepDl(dl, H', dr1, r1)
    /\ IF Escaped(l')
       THEN pc' = "recon" /\ i' = i
       ELSE pc' = "loop" /\ i' = i + 1
    /\ UNCHANGED <<u_camera_pos, ray_dir, u_time, dr, final_dir, fragColor>>

\* one iteration of the for loop, lines 140-147
LoopStep ==
    /\ pc = "loop"
    /\ LoopCond(i)
    /\ LET r1 == LtoR(l)
           dr1 == LtoDR(l)
       IN /\ r' = r1
          /\ l' = StepL(l, dl)
          /\ phi' = StepPhi(phi, H, r1)
          /\ dl' = StepDl(dl, H, dr1, r1)
    /\ IF Escaped(l')
       THEN pc' = "recon" /\ i' = i
       ELSE pc' = "loop" /\ i' = i + 1
    /\ UNCHANGED <<u_camera_pos, ray_dir, u_time, H, dr, final_dir, fragColor>>

\* line 140, condition false
LoopExit ==
    /\ pc = "loop"
    /\ ~LoopCond(i)
    /\ pc' = "recon"
    /\ UNCHANGED <<u_camera_pos, ray_dir, u_time, l, r, dl, H, phi, i, dr,
                   final_dir, fragColor>>

\* lines 148-157: the exit direction before normalisation
ExitDx(dl0, dr0, phi0, H0, r0) ==
    FMul(FMul(dl0, dr0), FCos(phi0)) - FMul(FDiv(H0, r0), FSin(phi0))
ExitDy(dl0, dr0, phi0, H0, r0) ==
    FMul(FMul(dl0, dr0), FSin(phi0)) + FMul(FDiv(H0, r0), FCos(phi0))
InitialPerpDir(rd) ==
    LET xy == <<rd[1], rd[2]>>
    IN IF Length(xy) > PERP_EPS THEN NormalizeVec(xy) ELSE <<0, 0>>

Reconstruct ==
    /\ pc = "recon"
    /\ dr' = LtoDR(l)
    /\ LET dx == ExitDx(dl, dr', phi, H, r)
           dy == ExitDy(dl, dr', phi, H, r)
           perp == InitialPerpDir(ray_dir)
       IN final_dir' = Dir(<<FMul(dy, perp[1]), FMul(dy, perp[2]), dx>>)
    /\ pc' = "normalize"
    /\ UNCHANGED <<u_camera_pos, ray_dir, u_time, l, r, dl, H, phi, i,
                   fragColor>>

\* line 158
Normalize ==
    /\ pc = "normalize"
    /\ IF final_dir.v = ZeroVec
       THEN final_dir' \in NormalizeZero
       ELSE final_dir' = Dir(NormalizeVec(final_dir.v))
    /\ pc' = "select"
    /\ UNCHANGED <<u_camera_pos, ray_dir, u_time, l, r, dl, H, phi, i, dr,
                   fragColor>>

\* lines 159-167
AngleA(t) == FMul(t, FLOW_SPEED)
AngleB(t) == FMul(FMul(-t, FLOW_SPEED), FLOW_RATIO_B)
\* InUniverseA with the throat l = 0 given to universe B
InUniverseA_Strict(l0) == l0 > 0
InUniverseA(l0) == l0 >= 0

Select ==
    /\ pc = "select"
    /\ LET rotated_dir_a == MatVec(rotationY(AngleA(u_time)), final_dir)
           rotated_dir_b == MatVec(rotationY(AngleB(u_time)), final_dir)
       IN IF InUniverseA(l)
          THEN fragColor' = Texture("A", rotated_dir_a)
          ELSE fragColor' = Texture("B", rotated_dir_b)
    /\ pc' = "done"
    /\ UNCHANGED <<u_camera_pos, ray_dir, u_time, l, r, dl, H, phi, i, dr,
                   final_dir>>

\* ------------------------------------------------------------------------
\* Wormhole3D: the recording state machine of run() and save_gif().
\* A captured frame is identified by the number of the frame it shows; an
\* exported GIF is the record of its frames and frame duration.
EventKinds == {"QUIT", "KEYDOWN_ESCAPE", "KEYUP_SPACE", "OTHER"}
FpsValues == {0, 60}
MsgStarted == "--- Started recording GIF ---"
MsgNoFrames == "No frames were recorded. Nothing to save."
MsgSaving == "Saving frames..."
MsgSaved == "GIF saved successfully"

\* line 182
Duration(fps) == IF fps > 0 THEN 1000 \div fps ELSE DEFAULT_DURATION

\* SaveGif without the guard of lines 172-174: frames_buffer[0] raises
SaveGif_NoEmptyCheck(fps, ok) ==
    IF frames_buffer # << >> /\ ok
    THEN /\ saved' = Append(saved, [frames |-> frames_buffer,
                                    duration |-> Duration(fps)])
         /\ console' = MsgSaved
         /\ frames_buffer' = << >>
         /\ UNCHANGED rpc
    ELSE /\ console' = MsgSaving
         /\ rpc' = "crashed"
         /\ UNCHANGED <<frames_buffer, saved>>

\* SaveGif without the clear() of line 194
SaveGif_NoClear(fps, ok) ==
    IF frames_buffer = << >>
    THEN /\ console' = MsgNoFrames
         /\ UNCHANGED <<frames_buffer, saved, rpc>>
    ELSE IF ok
         THEN /\ saved' = Append(saved, [frames |-> frames_buffer,
                                         duration |-> Duration(fps)])
              /\ console' = MsgSaved
              /\ UNCHANGED <<frames_buffer, rpc>>
         ELSE /\ console' = MsgSaving
              /\ rpc' = "crashed"
              /\ UNCHANGED <<frames_buffer, saved>>

\* save_gif, lines 171-194; fps is clock.get_fps(), ok is whether
\* Image.save returns (it raises on an I/O error, which ends run())
SaveGif(fps, ok) ==
    IF frames_buffer = << >>
    THEN /\ console' = MsgNoFrames
         /\ UNCHANGED <<frames_buffer, saved, rpc>>
    ELSE IF ok
         THEN /\ saved' = Append(saved, [frames |-> frames_buffer,
                                         duration |-> Duration(fps)])
              /\ console' = MsgSaved
              /\ frames_buffer' = << >>
              /\ UNCHANGED rpc
         ELSE /\ console' = MsgSaving
              /\ rpc' = "crashed"
              /\ UNCHANGED <<frames_buffer, saved>>

\* lines 222-230: the SPACE key released
ToggleRecording(fps, ok) ==
    IF ~is_recording
    THEN /\ is_recording' = TRUE
         /\ frames_buffer' = << >>
         /\ console' = MsgStarted
         /\ UNCHANGED <<saved, rpc>>
    ELSE /\ is_recording' = FALSE
         /\ SaveGif(fps, ok)

\* one pass of the body of `for event in pygame.event.get()`, lines 201-230
\* (the velocity keys change only the camera velocity, which is not part
\* of this model)
HandleEvent(e, fps, ok) ==
    /\ rpc = "events"
    /\ nevents < MaxEvents
    /\ nevents' = nevents + 1
    /\ CASE e \in {"QUIT", "KEYDOWN_ESCAPE"} ->
              /\ running' = FALSE
              /\ UNCHANGED <<is_recording, frames_buffer, saved, console, rpc>>
         [] e = "KEYUP_SPACE" ->
              /\ ToggleRecording(fps, ok)
              /\ UNCHANGED running
         [] OTHER ->
              UNCHANGED <<running, is_recording, frames_buffer, saved,
                          console, rpc>>
    /\ UNCHANGED frame_no

\* the event list is exhausted: on to line 232
EndEvents ==
    /\ rpc = "events"
    /\ rpc' = "body"
    /\ UNCHANGED <<running, is_recording, frames_buffer, saved, console,
                   frame_no, nevents>>

\* lines 261-267: the capture of the frame just rendered
Capture(buf, rec, frame) == IF rec THEN Append(buf, frame) ELSE buf

\* lines 232-273 and the `while running` test of line 198
FrameBody ==
    /\ rpc = "body"
    /\ frame_no < MaxFrames
    /\ frames_buffer' = Capture(frames_buffer, is_recording, frame_no)
    /\ frame_no' = frame_no + 1
    /\ nevents' = 0
    /\ rpc' = IF running THEN "events" ELSE "quit"
    /\ UNCHANGED <<running, is_recording, saved, console>>

\* Wormhole3D.__init__, lines 40-41, and the frame loop about to start
RecorderInit ==
    /\ running = TRUE
    /\ is_recording = FALSE
    /\ frames_buffer = << >>
    /\ saved = << >>
    /\ console = "none"
    /\ frame_no = 0
    /\ nevents = 0
    /\ rpc = "events"

ShaderInputs(pos, rd, t) ==
    /\ u_camera_pos = pos
    /\ ray_dir = rd
    /\ u_time = t
    /\ l = 0 /\ r = 0 /\ dl = 0 /\ H = 0 /\ phi = 0 /\ i = 0 /\ dr = 0
    /\ final_dir = Dir(ZeroVec)
    /\ fragColor = NoColor
    /\ pc = "seed"

\* ------------------------------------------------------------------------
\* The shader: one pixel for every input.
Init ==
    /\ \E pos \in CameraPositions, rd \in RayDirs, t \in Times :
          ShaderInputs(pos, rd, t)
    /\ RecorderInit

Next ==
    \/ Seed /\ UNCHANGED rvars
    \/ LoopStep /\ UNCHANGED rvars
    \/ LoopExit /\ UNCHANGED rvars
    \/ Reconstruct /\ UNCHANGED rvars
    \/ Normalize /\ UNCHANGED rvars
    \/ Select /\ UNCHANGED rvars

Spec == Init /\ [][Next]_vars

\* The frame loop, with the camera of line 30 looking down the axis.
RecInit ==
    /\ ShaderInputs(<<0, 0, 15000>>, <<0, 0, -1000>>, 0)
    /\ RecorderInit

RecNext ==
    \/ \E e \in EventKinds, fps \in FpsValues, ok \in BOOLEAN :
          HandleEvent(e, fps, ok) /\ UNCHANGED svars
    \/ EndEvents /\ UNCHANGED svars
    \/ FrameBody /\ UNCHANGED svars

RecSpec == RecInit /\ [][RecNext]_vars

\* ------------------------------------------------------------------------
\* Properties.

AfterLoop == pc \in {"recon", "normalize", "select", "done"}
Transverse(rd) == Length(<<rd[1], rd[2]>>)

\* C1: the integration loop terminates for every ray within MAX_STEPS step
\* updates: the counter i never exceeds MAX_STEPS, a step update is performed
\* only while i < MAX_STEPS, every step that stays in the loop advances i by
\* one (so i is a strictly increasing bounded variant), and the loop is left
\* only with i = MAX_STEPS or with |l| > BOUNDARY after a step.
C1_BoundedTermination ==
    [][pc = "loop" =>
         /\ i <= MAX_STEPS
         /\ (i = MAX_STEPS => UNCHANGED <<l, phi, dl>>)
         /\ (pc' = "loop" => i < MAX_STEPS /\ i' = i + 1)
         /\ (pc' # "loop" =>
               /\ pc' = "recon"
               /\ i' = i
               /\ i = MAX_STEPS \/ Abs(l') > BOUNDARY)]_vars

\* a ray that used the whole step budget without escaping
C1_Witness == pc = "done" /\ i = MAX_STEPS /\ Abs(l) <= BOUNDARY /\ H > 0

\* The axis ray of the end-to-end scenario: camera at l = 15, fired along +l.
AxisRay == u_camera_pos = <<0, 0, 15000>> /\ ray_dir = <<0, 0, 1000>>

\* C2 as stated: the axis ray keeps phi = 0, leaves the loop by |l| exceeding
\* BOUNDARY (not by exhausting MAX_STEPS) with l positive, and selects
\* Environment A.
C2_AxisRayEscapes ==
    AxisRay =>
        /\ phi = 0
        /\ (pc # "seed" => H = 0)
        /\ (AfterLoop => Abs(l) > BOUNDARY /\ i < MAX_STEPS /\ l > 0)
        /\ (pc = "done" => fragColor.env = "A")

\* C2 amended: the axis ray keeps phi = 0, never exceeds BOUNDARY, leaves the
\* loop by exhausting MAX_STEPS with l positive (15 + 500 * 0.05 = 40), and
\* selects Environment A.
C2_AxisRayExhausts ==
    AxisRay =>
        /\ phi = 0
        /\ (pc # "seed" => H = 0)
        /\ (pc = "loop" => Abs(l) <= BOUNDARY)
        /\ (AfterLoop => i = MAX_STEPS /\ l > 0 /\ l <= BOUNDARY)
        /\ (pc = "done" => fragColor.env = "A")

C2_Witness == AxisRay /\ pc = "done" /\ i = MAX_STEPS /\ l = 40000

\* C3: Environment A is sampled, with the direction rotated by
\* +time*FLOW_SPEED, iff l_final >= 0 (l_final = 0 included); Environment B,
\* with the direction rotated by -time*FLOW_SPEED*0.7, iff l_final < 0;
\* exactly one of the two is sampled, whatever universe the ray started in.
C3_EnvironmentSelection ==
    pc = "done" =>
        /\ fragColor.env \in {"A", "B"}
        /\ (fragColor.env = "A" <=> l >= 0)
        /\ (fragColor.env = "B" <=> l < 0)
        /\ (fragColor.env = "A" =>
              fragColor.dir =
                  MatVec(rotationY(FMul(u_time, FLOW_SPEED)), final_dir))
        /\ (fragColor.env = "B" =>
              fragColor.dir =
                  MatVec(rotationY(FMul(FMul(-u_time, FLOW_SPEED),
                                        FLOW_RATIO_B)), final_dir))

\* a ray that started in universe A, crossed the throat and sampled B
C3_Witness ==
    /\ pc = "done"
    /\ u_camera_pos[3] > 0
    /\ l < 0
    /\ fragColor.env = "B"
    /\ u_time > 0

\* C4: once the ray is seeded, no step of main() assigns H.
C4_HConserved == [][pc # "seed" => H' = H]_vars

\* a full integration run of a ray with H # 0
C4_Witness == pc = "done" /\ i = MAX_STEPS /\ H > 0 /\ phi > 0

\* C5 as stated: no step update is performed from a state in which
\* |l| > BOUNDARY, the initial state included.
C5_NoStepBeyondBoundary == [][LoopStep => Abs(l) <= BOUNDARY]_vars

\* C5 amended: no step update is performed from a state that an earlier step
\* left with |l| > BOUNDARY; only the first step, which precedes the first
\* test, may start beyond the boundary.
C5_NoStepAfterEscape == [][LoopStep => (i = 0 \/ Abs(l) <= BOUNDARY)]_vars

\* a ray that escaped after some steps and stopped there
C5_Witness == pc = "recon" /\ i > 0 /\ i < MAX_STEPS /\ Abs(l) > BOUNDARY

\* C6: the ray is seeded with l0 = camera.position.z, dl0 = dir.z, phi0 = 0
\* and H0 = L_to_R(l0) * |dir.xy|.
C6_RaySeed ==
    (pc = "loop" /\ i = 0) =>
        /\ l = u_camera_pos[3]
        /\ dl = ray_dir[3]
        /\ phi = 0
        /\ H = FMul(LtoR(u_camera_pos[3]), Transverse(ray_dir))

\* C7: for a ray with no (or below-threshold) transverse component the
\* vector passed to the final normalize is non-zero, and no undefined
\* direction reaches the environment lookup.
C7_NormalizeDefined ==
    Transverse(ray_dir) <= PERP_EPS =>
        /\ (pc = "normalize" => final_dir.v # ZeroVec)
        /\ (pc \in {"select", "done"} => ~final_dir.nan)
        /\ (pc = "done" => ~fragColor.dir.nan)

\* C8: a stop of the recording with no frame captured only prints the
\* message: no file is written, frames_buffer stays empty, is_recording is
\* False and the frame loop goes on.
C8_EmptyExportNoOp ==
    [][(rpc = "events" /\ is_recording /\ ~is_recording'
            /\ frames_buffer = << >>) =>
         /\ saved' = saved
         /\ frames_buffer' = << >>
         /\ console' = MsgNoFrames
         /\ running' = running
         /\ rpc' = "events"]_vars

\* recording started and stopped within the events of the first frame, and
\* the loop went on to render frames
C8_Witness ==
    /\ console = MsgNoFrames
    /\ ~is_recording
    /\ frames_buffer = << >>
    /\ saved = << >>
    /\ running
    /\ rpc = "events"
    /\ frame_no > 0

\* C9: every step evaluates r and dr from the pre-update l and advances l,
\* phi and dl with them; the reconstruction uses dr = L_to_DR(l_final) and
\* r = L_to_R(l_final), both at the final flare coordinate.
C9_StepAndReconstructionInputs ==
    [][/\ LoopStep =>
            /\ r' = LtoR(l)
            /\ l' = l + FMul(dl, DT)
            /\ phi' = phi + FMul(FDiv(H, FMul(r', r')), DT)
            /\ dl' = dl + FMul(FDiv(FMul(FMul(H, H), LtoDR(l)),
                                    FMul(FMul(r', r'), r')), DT)
       /\ Reconstruct =>
            /\ dr' = LtoDR(l)
            /\ r = LtoR(l)
            /\ final_dir'.v[3] = ExitDx(dl, LtoDR(l), phi, H, LtoR(l))]_vars

\* C10: frames_buffer is non-empty only while is_recording; a frame is
\* appended only by a frame iteration whose events left is_recording True; a
\* start clears frames_buffer; a stop that saves leaves it empty; no frame is
\* exported twice.
C10_RecordingInvariant ==
    [][/\ (rpc' # "crashed" /\ frames_buffer' # << >>) => is_recording'
       /\ Len(frames_buffer') > Len(frames_buffer) =>
            /\ rpc = "body"
            /\ is_recording
            /\ frames_buffer' = Append(frames_buffer, frame_no)
       /\ (~is_recording /\ is_recording') => frames_buffer' = << >>
       /\ (is_recording /\ ~is_recording' /\ rpc' # "crashed") =>
            frames_buffer' = << >>
       /\ \A m, n \in DOMAIN saved' :
            m # n =>
              \A j \in DOMAIN saved'[m].frames, k \in DOMAIN saved'[n].frames :
                 saved'[m].frames[j] # saved'[n].frames[k]]_vars

\* two recordings exported, the second holding none of the first's frames
C10_Witness ==
    /\ Len(saved) = 2
    /\ frames_buffer = << >>
    /\ ~is_recording
    /\ rpc = "events"

====
